---- MODULE Spec2Model ----
(***************************************************************************)
(* Model of src/main.rs of Mouse-Automation: a command-line program that   *)
(* resolves a CSV file (determine_csv_path), opens it, and replays every   *)
(* row as calls to the pointer driver (enigo) and to thread::sleep.        *)
(*                                                                         *)
(* The program is sequential.  One action of the model is one step of its  *)
(* control flow: the call of determine_csv_path, File::open, one call of   *)
(* the row iterator of `reader.deserialize()` (end of file, a row that     *)
(* does not decode, or a decoded record together with its delay), and one  *)
(* iteration of `for _ in 0..repeat_count`, split by the arm of the match  *)
(* that the record's action selects.                                       *)
(*                                                                         *)
(* The file system, the command line, the rows the reader yields and the   *)
(* outcome of the system calls are the environment.  The left button of    *)
(* the pointer device and the file system outlive a run (NewRun).          *)
(***************************************************************************)
EXTENDS Integers, Sequences, FiniteSets, TLC

(***************************************************************************)
(* Bounds of the model.                                                    *)
(***************************************************************************)
\* longest file a user supplies, in rows after the header
MaxRows == 2
\* largest repeat_count a user's row carries
MaxRepeat == 2

(***************************************************************************)
(* Option<T>: None is the empty sequence, Some(v) the one-element one.     *)
(***************************************************************************)
None == <<>>

Some(v) == <<v>>

IsSome(o) == o # None

Unwrap(o) == o[1]

\* unwrap_or with the default taken to be 0
UnwrapOrZero(o, d) == IF IsSome(o) THEN Unwrap(o) ELSE 0

\* Option::unwrap_or
UnwrapOr(o, d) == IF IsSome(o) THEN Unwrap(o) ELSE d

(***************************************************************************)
(* `repeat_count as i32`: a u32 reinterpreted as a 32-bit signed integer.  *)
(***************************************************************************)
\* (2^32 is written as a sum of numbers that fit the integers of TLC)
AsI32(n) == IF n <= 2147483647 THEN n ELSE ((n - 2147483647) - 2147483647) - 2

(***************************************************************************)
(* The file system.  Two spellings name the file of the working directory. *)
(***************************************************************************)
default_csv_path == "mouse_actions.csv"

default_paths ==
    << "mouse_actions.csv", "./mouse_actions.csv",
       "../mouse_actions.csv", "data/mouse_actions.csv" >>

\* the file a path names
FileOf(path) ==
    CASE path = "mouse_actions.csv"      -> "cwd"
      [] path = "./mouse_actions.csv"    -> "cwd"
      [] path = "../mouse_actions.csv"   -> "parent"
      [] path = "data/mouse_actions.csv" -> "data"
      [] OTHER                           -> "custom"

Files == {"cwd", "parent", "data", "custom"}

\* what a file holds: nothing (it does not exist), rows written by a user,
\* the sample written by the program, or nothing yet (a write that failed
\* after the file was created)
Contents == {"absent", "user", "sample", "empty"}

\* Path::new(path).exists()
Exists(f, path) == f[FileOf(path)] # "absent"

\* what `args` holds: no argument (None, also outside the call), or a path
ArgPaths == {"custom.csv", "./mouse_actions.csv"}

Args == {None} \cup {Some(p) : p \in ArgPaths}

(***************************************************************************)
(* struct MouseAction: one decoded row.                                    *)
(***************************************************************************)
MouseAction(a, x, y, d, b, m, r) ==
    [ action |-> a, x_position |-> x, y_position |-> y, delay_ms |-> d,
      button |-> b, modifiers |-> m, repeat_count |-> r ]

\* the tags the match of main names
KnownActions ==
    { "move", "move_relative", "click", "double_click", "right_click",
      "drag", "release", "scroll", "wait" }

\* the rows fs::write puts in the default file
SampleRows ==
    << MouseAction("move", Some(100), Some(200), Some(500), None, None, None),
       MouseAction("click", Some(150), Some(300), Some(200), Some("left"), None, Some(1)),
       MouseAction("double_click", Some(150), Some(300), Some(150), Some("left"), None, Some(2)),
       MouseAction("right_click", Some(400), Some(500), Some(300), Some("right"), None, Some(1)),
       MouseAction("drag", Some(200), Some(300), Some(100), Some("left"), None, None),
       MouseAction("release", Some(400), Some(500), Some(50), None, None, None),
       MouseAction("move", Some(500), Some(600), Some(300), None, None, None),
       MouseAction("scroll", Some(500), Some(600), Some(200), None, Some("down"), Some(5)),
       MouseAction("wait", None, None, Some(2000), None, None, None),
       MouseAction("move_relative", Some(50), Some(0 - 30), Some(300), None, None, None) >>

(***************************************************************************)
(* The rows a user's file may hold.  The position is filled only for an    *)
(* action that reads it, the button only for an action that operates a     *)
(* button, the modifiers only for a scroll (the sample rows fill others).  *)
(***************************************************************************)
ActionTags == KnownActions \cup {"teleport"}

XValues == {None, Some(3)}

YValues == {None, Some(4)}

DelayValues == {None, Some(7)}

ButtonValues == {None, Some("left"), Some("right"), Some("middle")}

ModifierValues == {None, Some("down"), Some("up")}

RepeatValues == {None} \cup {Some(n) : n \in 0..MaxRepeat}

ReadsPosition(a) ==
    a \in {"move", "move_relative", "click", "double_click", "right_click",
           "drag", "release"}

OperatesButton(a) ==
    a \in {"click", "double_click", "right_click", "drag", "release"}

ReadsModifiers(a) == a = "scroll"

Rows ==
    { r \in [ action : ActionTags, x_position : XValues, y_position : YValues,
              delay_ms : DelayValues, button : ButtonValues,
              modifiers : ModifierValues, repeat_count : RepeatValues ] :
        /\ ReadsPosition(r.action) \/ (r.x_position = None /\ r.y_position = None)
        /\ OperatesButton(r.action) \/ r.button = None
        /\ ReadsModifiers(r.action) \/ r.modifiers = None }

\* the value of `record` before the first row is read
NoRecord == MouseAction("", None, None, None, None, None, None)

(***************************************************************************)
(* What the program asks of the pointer driver and of the thread.          *)
(***************************************************************************)
Call(op, b, x, y) == [ op |-> op, button |-> b, x |-> x, y |-> y ]

Sleep(ms) == Call("sleep", "", ms, 0)

MouseMoveTo(x, y) == Call("mouse_move_to", "", x, y)

MouseMoveRelative(x, y) == Call("mouse_move_relative", "", x, y)

MouseClick(b) == Call("mouse_click", b, 0, 0)

MouseDown(b) == Call("mouse_down", b, 0, 0)

MouseUp(b) == Call("mouse_up", b, 0, 0)

MouseScrollY(n) == Call("mouse_scroll_y", "", 0, n)

\* the left button after one call: a press holds it, a release and a click
\* (press and release) let it go
ButtonAfter(held, ev) ==
    IF ev.button # "Left" THEN held
    ELSE CASE ev.op = "mouse_down"  -> TRUE
           [] ev.op = "mouse_up"    -> FALSE
           [] ev.op = "mouse_click" -> FALSE
           [] OTHER                 -> held

RECURSIVE HeldAfter(_, _)
HeldAfter(held, evs) ==
    IF evs = <<>> THEN held
    ELSE HeldAfter(ButtonAfter(held, Head(evs)), Tail(evs))

(***************************************************************************)
(* The arms of `match record.action.as_str()`: the calls one iteration of  *)
(* the repeat loop makes for record r.                                     *)
(***************************************************************************)
HasPosition(r) == IsSome(r.x_position) /\ IsSome(r.y_position)

\* `if let (Some(x), Some(y)) = ... { enigo.mouse_move_to(x, y); }`
MoveToPosition(r) ==
    IF HasPosition(r)
    THEN << MouseMoveTo(Unwrap(r.x_position), Unwrap(r.y_position)) >>
    ELSE << >>

\* `match record.button.as_deref()`
ButtonOf(r) ==
    CASE r.button = Some("right")  -> "Right"
      [] r.button = Some("middle") -> "Middle"
      [] OTHER                     -> "Left"

ArmMove(r) == MoveToPosition(r)

ArmMoveRelative(r) ==
    IF HasPosition(r)
    THEN << MouseMoveRelative(Unwrap(r.x_position), Unwrap(r.y_position)) >>
    ELSE << >>

ArmClick(r) == MoveToPosition(r) \o << MouseClick(ButtonOf(r)) >>

ArmDoubleClick(r) ==
    MoveToPosition(r)
        \o << MouseClick(ButtonOf(r)), Sleep(10), MouseClick(ButtonOf(r)) >>

ArmRightClick(r) == MoveToPosition(r) \o << MouseClick("Right") >>

ArmDrag(r) ==
    IF HasPosition(r)
    THEN << MouseMoveTo(Unwrap(r.x_position), Unwrap(r.y_position)),
            MouseDown("Left") >>
    ELSE << >>

ArmRelease(r) == MoveToPosition(r) \o << MouseUp("Left") >>

\* `direction * amount`, with amount = repeat_count as i32
ArmScroll(r, n) ==
    LET direction == IF r.modifiers = Some("down") THEN 0 - 1 ELSE 1
        amount == AsI32(n)
    IN  << MouseScrollY(direction * amount) >>

ArmWait(r) == << >>

\* the default arm taken to fall through to the click arm
ArmDefaultClicks(r) == ArmClick(r)

ArmDefault(r) == << >>

(***************************************************************************)
(* The state.                                                              *)
(***************************************************************************)
VARIABLES
    fs,            \* the file system: what each of Files holds
    left_down,     \* the pointer device: the left button is held
    args,          \* `args` of determine_csv_path: None, or Some(args[1])
    pc,            \* where main is: "start", "open", "read", "exec", "done", "error"
    error,         \* the error main returned: "", "write", "open" or "decode"
    wrote,         \* determine_csv_path called fs::write in this run
    csv_path,      \* the path determine_csv_path returned
    content,       \* what the opened file holds
    nrows,         \* the number of rows of the opened file
    row,           \* the number of rows the reader has yielded
    record,        \* `record`: the row being executed (NoRecord outside the loop body)
    repeat_count,  \* record.repeat_count.unwrap_or(1)
    iter,          \* the iterations of the repeat loop that have run
    calls          \* the sleeps and driver calls made for `record`, in order

vars ==
    << fs, left_down, args, pc, error, wrote, csv_path, content, nrows, row,
       record, repeat_count, iter, calls >>

\* the variables of one run of main, apart from pc, error, wrote, csv_path
loop_vars == << content, nrows, row, record, repeat_count, iter, calls >>

TypeOK ==
    /\ fs \in [Files -> Contents]
    /\ left_down \in BOOLEAN
    /\ args \in Args
    /\ pc \in {"start", "open", "read", "exec", "done", "error"}
    /\ error \in {"", "write", "open", "decode"}
    /\ wrote \in BOOLEAN
    /\ csv_path \in {""} \cup ArgPaths \cup {default_paths[k] : k \in 1..Len(default_paths)}
    /\ content \in Contents
    /\ nrows \in Nat
    /\ row \in 0..nrows
    /\ repeat_count \in Nat
    /\ iter \in 0..repeat_count
    /\ calls \in Seq([op : STRING, button : STRING, x : Int, y : Int])

\* before main starts the files are absent or the user's, and the button is up
Init ==
    /\ fs \in [Files -> {"absent", "user"}]
    /\ left_down = FALSE
    /\ args \in Args
    /\ pc = "start"
    /\ error = ""
    /\ wrote = FALSE
    /\ csv_path = ""
    /\ content = "absent"
    /\ nrows = 0
    /\ row = 0
    /\ record = NoRecord
    /\ repeat_count = 0
    /\ iter = 0
    /\ calls = << >>

(***************************************************************************)
(* determine_csv_path                                                      *)
(***************************************************************************)
\* the candidates probed from the last to the first
RECURSIVE LastExisting(_, _)
LastExisting(f, paths) ==
    IF paths = << >> THEN default_csv_path
    ELSE IF Exists(f, paths[Len(paths)]) THEN paths[Len(paths)]
    ELSE LastExisting(f, SubSeq(paths, 1, Len(paths) - 1))

\* `for path in default_paths { if Path::new(path).exists() { return ... } }`
\* and the fallback after the loop
RECURSIVE FirstExisting(_, _)
FirstExisting(f, paths) ==
    IF paths = << >> THEN default_csv_path
    ELSE IF Exists(f, Head(paths)) THEN Head(paths)
    ELSE FirstExisting(f, Tail(paths))

\* the argument returned without the test that its file exists
ArgumentGiven == IsSome(args)

\* the argument names a file that exists: it is returned
ArgumentFound == IsSome(args) /\ Exists(fs, Unwrap(args))

\* the default file written without the test that it is missing
DefaultMissingAlways == TRUE

\* `!Path::new(default_csv_path).exists()`
DefaultMissing == ~Exists(fs, default_csv_path)

\* the file systems fs::write may leave: the sample on success; on failure
\* the file untouched, or created and not filled
WriteOutcomes(f) ==
    { [ok |-> TRUE, fs |-> [f EXCEPT !["cwd"] = "sample"]],
      [ok |-> FALSE, fs |-> f],
      [ok |-> FALSE, fs |-> [f EXCEPT !["cwd"] = "empty"]] }

DetermineCsvPath ==
    /\ pc = "start"
    /\ IF ArgumentFound
       THEN /\ csv_path' = Unwrap(args)
            /\ pc' = "open"
            /\ UNCHANGED << fs, wrote, error >>
       ELSE IF DefaultMissing
       THEN \E w \in WriteOutcomes(fs) :
                /\ fs' = w.fs
                /\ wrote' = TRUE
                /\ IF w.ok
                   THEN /\ csv_path' = FirstExisting(w.fs, default_paths)
                        /\ pc' = "open"
                        /\ error' = error
                   ELSE /\ csv_path' = csv_path
                        /\ pc' = "error"
                        /\ error' = "write"
       ELSE /\ csv_path' = FirstExisting(fs, default_paths)
            /\ pc' = "open"
            /\ UNCHANGED << fs, wrote, error >>
    /\ args' = None
    /\ UNCHANGED << left_down, loop_vars >>

(***************************************************************************)
(* main                                                                    *)
(***************************************************************************)
\* the number of rows a file holds
RowCounts(c) ==
    CASE c = "sample" -> {Len(SampleRows)}
      [] c = "user"   -> 0..MaxRows
      [] OTHER        -> {0}

\* `File::open(&csv_path)?` and `Reader::from_reader(file)`
OpenFile ==
    /\ pc = "open"
    /\ \/ /\ Exists(fs, csv_path)
          /\ content' = fs[FileOf(csv_path)]
          /\ nrows' \in RowCounts(fs[FileOf(csv_path)])
          /\ pc' = "read"
          /\ error' = error
       \/ /\ pc' = "error"
          /\ error' = "open"
          /\ UNCHANGED << content, nrows >>
    /\ UNCHANGED << fs, left_down, args, wrote, csv_path, row, record,
                    repeat_count, iter, calls >>

\* the records the reader may yield as row k of the opened file
RowsAt(k) == IF content = "sample" THEN {SampleRows[k]} ELSE Rows

\* `thread::sleep(Duration::from_millis(delay))` when delay_ms is present
DelayOf(r) == IF IsSome(r.delay_ms) THEN << Sleep(Unwrap(r.delay_ms)) >> ELSE << >>

\* the reader yields a record: the delay, then repeat_count is computed
ReadRecord ==
    /\ pc = "read"
    /\ row < nrows
    /\ \E r \in RowsAt(row + 1) :
          /\ record' = r
          /\ calls' = DelayOf(r)
          /\ repeat_count' = UnwrapOr(r.repeat_count, 1)
    /\ row' = row + 1
    /\ iter' = 0
    /\ pc' = "exec"
    /\ UNCHANGED << fs, left_down, args, error, wrote, csv_path, content, nrows >>

\* a row that does not decode reported and skipped, the loop going on
ReadMalformedSkips ==
    /\ pc = "read"
    /\ row < nrows
    /\ content = "user"
    /\ row' = row + 1
    /\ error' = "decode"
    /\ UNCHANGED << fs, left_down, args, pc, wrote, csv_path, content, nrows,
                    record, repeat_count, iter, calls >>

\* the reader yields an error for a row that does not decode: `result?`
ReadMalformed ==
    /\ pc = "read"
    /\ row < nrows
    /\ content = "user"
    /\ row' = row + 1
    /\ pc' = "error"
    /\ error' = "decode"
    /\ UNCHANGED << fs, left_down, args, wrote, csv_path, content, nrows,
                    record, repeat_count, iter, calls >>

\* completion that lets the left button go
FinishReleasing ==
    /\ pc = "read"
    /\ row = nrows
    /\ pc' = "done"
    /\ left_down' = FALSE
    /\ UNCHANGED << fs, args, error, wrote, csv_path, loop_vars >>

\* the reader is exhausted: the completion message and Ok(())
Finish ==
    /\ pc = "read"
    /\ row = nrows
    /\ pc' = "done"
    /\ UNCHANGED << fs, left_down, args, error, wrote, csv_path, loop_vars >>

\* the delay taken inside the repeat loop, before every iteration
IterateDelaying(evs) ==
    /\ pc = "exec"
    /\ iter < repeat_count
    /\ calls' = calls \o DelayOf(record) \o evs
    /\ left_down' = HeldAfter(left_down, evs)
    /\ iter' = iter + 1
    /\ UNCHANGED << fs, args, pc, error, wrote, csv_path, content, nrows, row,
                    record, repeat_count >>

\* one iteration of `for _ in 0..repeat_count` that makes the calls evs
Iterate(evs) ==
    /\ pc = "exec"
    /\ iter < repeat_count
    /\ calls' = calls \o evs
    /\ left_down' = HeldAfter(left_down, evs)
    /\ iter' = iter + 1
    /\ UNCHANGED << fs, args, pc, error, wrote, csv_path, content, nrows, row,
                    record, repeat_count >>

Move == record.action = "move" /\ Iterate(ArmMove(record))

MoveRelative == record.action = "move_relative" /\ Iterate(ArmMoveRelative(record))

Click == record.action = "click" /\ Iterate(ArmClick(record))

DoubleClick == record.action = "double_click" /\ Iterate(ArmDoubleClick(record))

RightClick == record.action = "right_click" /\ Iterate(ArmRightClick(record))

Drag == record.action = "drag" /\ Iterate(ArmDrag(record))

Release == record.action = "release" /\ Iterate(ArmRelease(record))

Scroll == record.action = "scroll" /\ Iterate(ArmScroll(record, repeat_count))

Wait == record.action = "wait" /\ Iterate(ArmWait(record))

Unknown == record.action \notin KnownActions /\ Iterate(ArmDefault(record))

\* the repeat loop is over: the body of `for result in ...` ends, the record
\* is dropped and the reader is asked for the next row
EndRecord ==
    /\ pc = "exec"
    /\ iter = repeat_count
    /\ pc' = "read"
    /\ record' = NoRecord
    /\ repeat_count' = 0
    /\ iter' = 0
    /\ calls' = << >>
    /\ UNCHANGED << fs, left_down, args, error, wrote, csv_path, content, nrows, row >>

\* the program is started again: the files and the button are as it left them
NewRun ==
    /\ pc \in {"done", "error"}
    /\ args' \in Args
    /\ pc' = "start"
    /\ error' = ""
    /\ wrote' = FALSE
    /\ csv_path' = ""
    /\ content' = "absent"
    /\ nrows' = 0
    /\ row' = 0
    /\ record' = NoRecord
    /\ repeat_count' = 0
    /\ iter' = 0
    /\ calls' = << >>
    /\ UNCHANGED << fs, left_down >>

Next ==
    \/ DetermineCsvPath
    \/ OpenFile
    \/ ReadRecord
    \/ ReadMalformed
    \/ Finish
    \/ Move
    \/ MoveRelative
    \/ Click
    \/ DoubleClick
    \/ RightClick
    \/ Drag
    \/ Release
    \/ Scroll
    \/ Wait
    \/ Unknown
    \/ EndRecord
    \/ NewRun

Spec == Init /\ [][Next]_vars

(***************************************************************************)
(* Vocabulary of the properties.                                           *)
(***************************************************************************)
\* the calls made to the pointer driver, the sleeps left out
DriverCalls(cs) == SelectSeq(cs, LAMBDA e : e.op # "sleep")

\* the calls of cs that are op
CallsOf(cs, op) == SelectSeq(cs, LAMBDA e : e.op = op)

\* the repeat loop of the record has run to its end
RecordDone == pc = "exec" /\ iter = repeat_count

\* body, k times over
RECURSIVE Repeated(_, _)
Repeated(body, k) == IF k = 0 THEN << >> ELSE body \o Repeated(body, k - 1)

\* the calls of one execution of the body of record r, whose loop runs n times
BodyOf(r, n) ==
    CASE r.action = "move"          -> ArmMove(r)
      [] r.action = "move_relative" -> ArmMoveRelative(r)
      [] r.action = "click"         -> ArmClick(r)
      [] r.action = "double_click"  -> ArmDoubleClick(r)
      [] r.action = "right_click"   -> ArmRightClick(r)
      [] r.action = "drag"          -> ArmDrag(r)
      [] r.action = "release"       -> ArmRelease(r)
      [] r.action = "scroll"        -> ArmScroll(r, n)
      [] r.action = "wait"          -> ArmWait(r)
      [] OTHER                      -> ArmDefault(r)

\* a record whose action is none of the nine tags
IsUnknown(r) == r # NoRecord /\ r.action \notin KnownActions

(***************************************************************************)
(* C1.  A scroll record with repeat_count n >= 1 (absent counts as 1)      *)
(* makes exactly one mouse_scroll_y call: -n when modifiers is "down", +n  *)
(* otherwise.                                                              *)
(***************************************************************************)
C1_ScrollOnce ==
    (RecordDone /\ record.action = "scroll" /\ repeat_count >= 1) =>
        DriverCalls(calls) =
            << MouseScrollY(IF record.modifiers = Some("down")
                            THEN 0 - repeat_count ELSE repeat_count) >>

(***************************************************************************)
(* C2.  Every execution of the body of a drag record presses the left      *)
(* button and does not release it, after a move to (x, y) when both        *)
(* coordinates are present and without a move when one is absent.          *)
(***************************************************************************)
C2_DragPresses ==
    (pc = "exec" /\ record.action = "drag") =>
        DriverCalls(calls) =
            Repeated(MoveToPosition(record) \o << MouseDown("Left") >>, iter)

(***************************************************************************)
(* C3.  When the repeat loop of a record that is not a scroll is over, the *)
(* driver calls made for it are those of its body repeated k times, where  *)
(* k is the repeat_count field, or 1 when the field is absent (so an       *)
(* absent field gives the calls of the same record with repeat_count 1);   *)
(* k = 0 gives no driver call, and a double_click gives 2k clicks.         *)
(***************************************************************************)
C3_RepeatedBody ==
    (RecordDone /\ record.action # "scroll") =>
        LET k == IF record.repeat_count = None THEN 1
                 ELSE Unwrap(record.repeat_count)
            one == [record EXCEPT !.repeat_count = Some(1)]
        IN  /\ DriverCalls(calls) = DriverCalls(Repeated(BodyOf(record, k), k))
            /\ record.repeat_count = None =>
                   DriverCalls(calls) = DriverCalls(BodyOf(one, 1))
            /\ k = 0 => DriverCalls(calls) = << >>
            /\ record.action = "double_click" =>
                   Len(CallsOf(calls, "mouse_click")) = 2 * k

\* a double_click with repeat_count 2 is over and has clicked four times
C3_Witness ==
    /\ RecordDone
    /\ record.action = "double_click"
    /\ record.repeat_count = Some(2)
    /\ Len(CallsOf(calls, "mouse_click")) = 4

\* s is an initial part of t
IsPrefix(s, t) == Len(s) <= Len(t) /\ SubSeq(t, 1, Len(s)) = s

(***************************************************************************)
(* C4.  Rows are executed one after the other in the order the reader      *)
(* yields them.  While a record is executed the sleeps and calls made for  *)
(* it are its delay_ms sleep (when present), once and first, followed by   *)
(* its body once per iteration run so far; a step of the loop only adds    *)
(* calls; the next row is read only when the loop of the record is over;   *)
(* the run completes exactly when the reader is exhausted; and until the   *)
(* run has ended a step of it is possible and every step of it advances    *)
(* (Position grows), so that a run whose rows all decode completes.        *)
(***************************************************************************)
\* how far a run is: the stage of main, then the iterations of the loop
Position ==
    << CASE pc = "start" -> 0
         [] pc = "open"  -> 1
         [] pc = "read"  -> 2 * row + 2
         [] pc = "exec"  -> 2 * row + 1
         [] OTHER        -> 2 * nrows + 3,
       iter >>

\* a step of the run (any step but the start of another run)
RunStep ==
    \/ DetermineCsvPath \/ OpenFile \/ ReadRecord \/ ReadMalformed \/ Finish
    \/ Move \/ MoveRelative \/ Click \/ DoubleClick \/ RightClick \/ Drag
    \/ Release \/ Scroll \/ Wait \/ Unknown \/ EndRecord

C4_FileOrder ==
    [][ /\ pc = "exec" =>
             calls = DelayOf(record)
                         \o Repeated(BodyOf(record, repeat_count), iter)
        /\ (row' # row /\ pc' # "start") =>
             (pc = "read" /\ row' = row + 1 /\ record = NoRecord /\ calls = << >>)
        /\ (pc = "exec" /\ pc' = "exec") =>
             (row' = row /\ record' = record /\ IsPrefix(calls, calls'))
        /\ (pc = "exec" /\ pc' # "exec") => (RecordDone /\ pc' = "read")
        /\ pc' = "done" => (pc = "read" /\ row = nrows /\ error = "")
        /\ (pc = "read" /\ row = nrows) => pc' = "done"
        /\ pc \notin {"done", "error"} =>
             /\ ENABLED RunStep
             /\ \/ Position[1] < Position'[1]
                \/ Position[1] = Position'[1] /\ Position[2] < Position'[2] ]_vars

\* the second row of a file carries a delay and its loop of two iterations is over
C4_Witness ==
    /\ RecordDone
    /\ row = 2
    /\ IsSome(record.delay_ms)
    /\ repeat_count = 2
    /\ Len(DriverCalls(calls)) >= 2

(***************************************************************************)
(* C5.  A row that fails to decode ends the run in the error state: the    *)
(* step makes no sleep and no driver call and leaves the button as the     *)
(* earlier rows left it, and from the error state the run takes no further *)
(* step (no later row is read, nothing is undone, there is no completion). *)
(***************************************************************************)
C5_DecodeAborts ==
    [][ /\ (error # "decode" /\ error' = "decode") =>
             /\ pc = "read" /\ pc' = "error"
             /\ row' = row + 1
             /\ calls' = calls /\ calls = << >>
             /\ left_down' = left_down
        /\ error = "decode" =>
             /\ pc = "error" /\ pc' = "start"
             /\ left_down' = left_down ]_vars

\* the run stopped at a second row that did not decode; the first row's press stands
C5_Witness == pc = "error" /\ error = "decode" /\ row = 2 /\ left_down

(***************************************************************************)
(* C6.  A record with an unrecognised action makes no driver call for any  *)
(* repeat_count, does not put the run in the error state, and leaves all   *)
(* that later records depend on (the button, the files, the opened file)   *)
(* as it found it, so that the reader is asked for the next row.           *)
(***************************************************************************)
C6_UnknownSkipped ==
    [][ /\ IsUnknown(record') =>
             /\ DriverCalls(calls') = << >>
             /\ pc' = "exec" /\ error' = ""
             /\ UNCHANGED << fs, left_down, content, nrows >>
        /\ IsUnknown(record) =>
             /\ pc' \in {"exec", "read"} /\ error' = ""
             /\ row' = row
             /\ UNCHANGED << fs, left_down, content, nrows >>
             /\ pc' = "read" => iter = repeat_count ]_vars

\* the first row is unrecognised, its loop of two iterations is over and a row follows
C6_Witness ==
    /\ RecordDone
    /\ IsUnknown(record)
    /\ repeat_count = 2
    /\ row < nrows

(***************************************************************************)
(* C7.  Called with an argument that names no file, determine_csv_path     *)
(* does not fail for that: it creates mouse_actions.csv when it is absent  *)
(* and returns a path that exists.  It returns an error only when the      *)
(* write of the default file fails.                                        *)
(***************************************************************************)
C7_MissingArgument ==
    [][ pc = "start" =>
          /\ (IsSome(args) /\ fs[FileOf(Unwrap(args))] = "absent") =>
               /\ pc' = "error" => (wrote' /\ fs["cwd"] = "absent")
               /\ pc' = "open" =>
                    /\ fs'[FileOf(csv_path')] # "absent"
                    /\ fs'["cwd"] # "absent"
                    /\ fs["cwd"] = "absent" => (wrote' /\ fs'["cwd"] = "sample")
          /\ pc' = "error" =>
               (error' = "write" /\ wrote' /\ fs'["cwd"] # "sample")
          /\ (wrote' /\ fs'["cwd"] = "sample") => pc' = "open" ]_vars

\* the argument named no file and the default file was created and returned
C7_Witness ==
    /\ pc = "open"
    /\ wrote
    /\ fs["custom"] = "absent"
    /\ fs["cwd"] = "sample"
    /\ csv_path = "mouse_actions.csv"

(***************************************************************************)
(* C8.  While mouse_actions.csv exists in the working directory no step of *)
(* any run writes a file, with or without an argument; and when the        *)
(* argument names a file that exists, that path is returned and no file is *)
(* created.                                                                *)
(***************************************************************************)
C8_NoOverwrite ==
    [][ /\ fs["cwd"] # "absent" => (fs' = fs /\ (wrote' => wrote))
        /\ (pc = "start" /\ IsSome(args) /\ fs[FileOf(Unwrap(args))] # "absent") =>
             (csv_path' = Unwrap(args) /\ pc' = "open" /\ fs' = fs /\ ~wrote') ]_vars

\* a later run (the button is held from an earlier one) was given an argument
\* that names a file, and the user's default file is as it was
C8_Witness ==
    /\ pc = "open"
    /\ left_down
    /\ csv_path = "custom.csv"
    /\ fs["cwd"] = "user"
    /\ ~wrote

(***************************************************************************)
(* C9.  The program never releases the left button on its own: the button  *)
(* goes from held to up only in an iteration of a release record or of a   *)
(* click or double_click record with the left button, and neither          *)
(* completion nor an abort changes it, so a press that no later record     *)
(* undoes is still held when the run has ended.                            *)
(***************************************************************************)
C9_NoCompensatingRelease ==
    [][ /\ (left_down /\ ~left_down') =>
             /\ pc = "exec" /\ iter < repeat_count
             /\ \/ record.action = "release"
                \/ /\ record.action \in {"click", "double_click"}
                   /\ record.button \notin {Some("right"), Some("middle")}
        /\ (record.action = "drag" /\ pc = "exec" /\ iter' = iter + 1
                /\ IsSome(record.x_position) /\ IsSome(record.y_position)) =>
             left_down'
        /\ (pc' \in {"done", "error", "start"} \/ pc \in {"done", "error"}) =>
             left_down' = left_down ]_vars

\* a run ended normally with the button still held
C9_Witness == pc = "done" /\ left_down /\ row >= 1

(***************************************************************************)
(* C10.  In default resolution (no argument, or an argument that names no  *)
(* file) a successful determine_csv_path returns "mouse_actions.csv", also *)
(* when that file did not exist before and a later candidate does.         *)
(***************************************************************************)
C10_FirstCandidate ==
    [][ (/\ pc = "start" /\ pc' = "open"
         /\ args = None \/ fs[FileOf(Unwrap(args))] = "absent") =>
            csv_path' = "mouse_actions.csv" ]_vars

\* the default file was created although the parent and data candidates exist
C10_Witness ==
    /\ pc = "open"
    /\ wrote
    /\ fs["parent"] = "user"
    /\ fs["data"] = "user"
    /\ csv_path = "mouse_actions.csv"

====
